---------------------------- MODULE Spec2Model ----------------------------
(***************************************************************************)
(* Combinational circuit checker: the equivalence flow                     *)
(* (src/circuit_equivalence.py) and the single-circuit validation flow     *)
(* (src/circuit-evaluator.py).                                             *)
(*                                                                         *)
(* A circuit is a record [inputs, gates, outputs]; a gate is a record      *)
(* [name, type, inputs].  Z3 expressions are modelled as syntax trees      *)
(*   <<"var", n>>  <<"not", e>>  <<"and", <<e..>>>>  <<"or", <<e..>>>>      *)
(*   <<"xor", e1, e2>>  <<"eq", e1, e2>>  <<"ne", e1, e2>>                  *)
(* and the solver as the search for an assignment of the declared Bool     *)
(* variables that makes every asserted expression true.                    *)
(***************************************************************************)
EXTENDS Naturals, Sequences, FiniteSets, TLC

VARIABLES
    op,                 \* which entry point this run calls
    circuit1,           \* first circuit argument (the only one of validate_circuit)
    circuit2,           \* second circuit argument of check_circuit_equivalence
    input_assignments,  \* validate_circuit: dict as a sequence of <<name, value>>
    signal_assignments, \* validate_circuit: dict as a sequence of <<name, value>>
    pc,                 \* "ready" before the call, "done" after it
    solver,             \* "none" until Solver() is constructed, then "created"
    checks,             \* number of solver.check() calls issued
    miter_pairs,        \* check_circuit_equivalence: the output_pairs of the query
    solver_model,       \* the model solver.model() returned, <<>> if none
    result,             \* what the call returned, or the exit it raised
    oracle,             \* whether the solver decides its query or gives up on it
    call_z3_vars,       \* the z3_vars dict of the most recent call, as it left it
    earlier_signals,    \* the names the z3_vars dicts of the calls before it held
    passed              \* the arguments as the caller passed them to the call

vars == <<op, circuit1, circuit2, input_assignments, signal_assignments,
          pc, solver, checks, miter_pairs, solver_model, result, oracle,
          call_z3_vars, earlier_signals, passed>>

\* The argument values as they are now.
Arguments_now ==
    [circuit1 |-> circuit1, circuit2 |-> circuit2,
     input_assignments |-> input_assignments,
     signal_assignments |-> signal_assignments]

-----------------------------------------------------------------------------
(* Python helpers *)

\* str.upper() on the gate type strings that occur in the model.
Upper(s) ==
    CASE s = "and" -> "AND"
      [] s = "or" -> "OR"
      [] s = "not" -> "NOT"
      [] s = "Xor" -> "XOR"
      [] s = "buff" -> "BUFF"
      [] OTHER -> s

Range(s) == {s[k] : k \in 1..Len(s)}

\* The keys of a dict filled by successive d[k] = v over the sequence s:
\* insertion order, a repeated key keeps its first position.
RECURSIVE DictKeys(_)
DictKeys(s) ==
    IF s = <<>> THEN <<>>
    ELSE LET front == DictKeys(SubSeq(s, 1, Len(s) - 1))
             last == s[Len(s)]
         IN IF last \in Range(front) THEN front ELSE Append(front, last)

\* zip(a, b): pairs up to the shorter length.
Zip(a, b) ==
    LET n == IF Len(a) < Len(b) THEN Len(a) ELSE Len(b)
    IN [k \in 1..n |-> <<a[k], b[k]>>]

-----------------------------------------------------------------------------
(* Z3 expressions and the solver *)

Bool(name) == <<"var", name>>

RECURSIVE Eval(_, _)
Eval(e, m) ==
    CASE e[1] = "var" -> m[e[2]]
      [] e[1] = "not" -> ~Eval(e[2], m)
      [] e[1] = "and" -> \A k \in 1..Len(e[2]) : Eval(e[2][k], m)
      [] e[1] = "or" -> \E k \in 1..Len(e[2]) : Eval(e[2][k], m)
      [] e[1] = "xor" -> Eval(e[2], m) # Eval(e[3], m)
      [] e[1] = "eq" -> Eval(e[2], m) = Eval(e[3], m)
      [] e[1] = "ne" -> Eval(e[2], m) # Eval(e[3], m)

\* The models a satisfiable solver.check() may hand back: total assignments
\* of the declared variables (model completion) satisfying every assertion.
SolverModels(assertions, z3_vars) ==
    {m \in [DOMAIN z3_vars -> BOOLEAN] :
        \A k \in 1..Len(assertions) : Eval(assertions[k], m)}

\* Mutant of FreshZ3Vars: the dict of the previous call is used again.
SurvivingZ3Vars == call_z3_vars

\* z3_vars = {} at the start of a call.
FreshZ3Vars == <<>>

\* What solver.check() answers: sat or unsat when the solver decides the
\* query, unknown when it gives up (resource limit, timeout, interrupt).
SolverCheck(models) ==
    IF oracle = "unknown" THEN "unknown"
    ELSE IF models # {} THEN "sat" ELSE "unsat"

-----------------------------------------------------------------------------
(* build_z3_expr of circuit_equivalence.py: inlined expressions *)

NoExpr == <<"or", <<>>>>

Raised(msg) == [raised |-> TRUE, error |-> msg, expr |-> NoExpr]
Built(e) == [raised |-> FALSE, error |-> "", expr |-> e]

\* The if/elif chain creating the expression of one gate.
\* Mutant of GateExpr: the arity checks only refuse too few inputs.
GateExprLooseArity(gate_name, gate_type, gate_inputs, expr_map) ==
    LET ins == [k \in 1..Len(gate_inputs) |-> expr_map[gate_inputs[k]]]
    IN CASE gate_type = "AND" -> Built(<<"and", ins>>)
         [] gate_type = "OR" -> Built(<<"or", ins>>)
         [] gate_type = "NOT" ->
              IF Len(gate_inputs) < 1
              THEN Raised("NOT gate '" \o gate_name \o "' must have exactly one input.")
              ELSE Built(<<"not", ins[1]>>)
         [] gate_type = "NAND" -> Built(<<"not", <<"and", ins>>>>)
         [] gate_type = "NOR" -> Built(<<"not", <<"or", ins>>>>)
         [] gate_type = "XOR" ->
              IF Len(gate_inputs) < 2
              THEN Raised("XOR gate '" \o gate_name \o "' must have exactly two inputs.")
              ELSE Built(<<"xor", ins[1], ins[2]>>)
         [] gate_type = "XNOR" ->
              IF Len(gate_inputs) < 2
              THEN Raised("XNOR gate '" \o gate_name \o "' must have exactly two inputs.")
              ELSE Built(<<"not", <<"xor", ins[1], ins[2]>>>>)
         [] OTHER -> Raised("Unsupported gate type: " \o gate_type)

\* The if/elif chain building the expression of one gate.
GateExpr(gate_name, gate_type, gate_inputs, expr_map) ==
    LET ins == [k \in 1..Len(gate_inputs) |-> expr_map[gate_inputs[k]]]
    IN CASE gate_type = "AND" -> Built(<<"and", ins>>)
         [] gate_type = "OR" -> Built(<<"or", ins>>)
         [] gate_type = "NOT" ->
              IF Len(gate_inputs) # 1
              THEN Raised("NOT gate '" \o gate_name \o "' must have exactly one input.")
              ELSE Built(<<"not", ins[1]>>)
         [] gate_type = "NAND" -> Built(<<"not", <<"and", ins>>>>)
         [] gate_type = "NOR" -> Built(<<"not", <<"or", ins>>>>)
         [] gate_type = "XOR" ->
              IF Len(gate_inputs) # 2
              THEN Raised("XOR gate '" \o gate_name \o "' must have exactly two inputs.")
              ELSE Built(<<"xor", ins[1], ins[2]>>)
         [] gate_type = "XNOR" ->
              IF Len(gate_inputs) # 2
              THEN Raised("XNOR gate '" \o gate_name \o "' must have exactly two inputs.")
              ELSE Built(<<"not", <<"xor", ins[1], ins[2]>>>>)
         [] OTHER -> Raised("Unsupported gate type: " \o gate_type)

\* The first input signal of a gate that is not yet in expr_map (0: none).
FirstUndefined(gate_inputs, expr_map) ==
    LET bad == {k \in 1..Len(gate_inputs) : gate_inputs[k] \notin DOMAIN expr_map}
    IN IF bad = {} THEN 0 ELSE CHOOSE k \in bad : \A j \in bad : k <= j

\* expr_map after d[k] = v.
DictSet(d, k, v) == [x \in DOMAIN d \cup {k} |-> IF x = k THEN v ELSE d[x]]

\* The "Process gates" loop from gate i on.
RECURSIVE ProcessGates(_, _, _, _, _)
ProcessGates(gates, i, expr_map, gate_names, variables) ==
    IF i > Len(gates)
    THEN [raised |-> FALSE, error |-> "", expr_map |-> expr_map, variables |-> variables]
    ELSE LET gate_name == gates[i].name
             gate_type == Upper(gates[i].type)
             gate_inputs == gates[i].inputs
             undef == FirstUndefined(gate_inputs, expr_map)
             g == GateExpr(gate_name, gate_type, gate_inputs, expr_map)
         IN IF gate_name \in gate_names
            THEN [raised |-> TRUE,
                  error |-> "Duplicate gate name '" \o gate_name \o "' in circuit.",
                  expr_map |-> expr_map, variables |-> variables]
            ELSE IF undef # 0
            THEN [raised |-> TRUE,
                  error |-> "Signal '" \o gate_inputs[undef] \o "' used in gate '"
                            \o gate_name \o "' is not defined.",
                  expr_map |-> expr_map, variables |-> variables]
            ELSE IF g.raised
            THEN [raised |-> TRUE, error |-> g.error,
                  expr_map |-> expr_map, variables |-> variables]
            ELSE ProcessGates(gates, i + 1, DictSet(expr_map, gate_name, g.expr),
                              gate_names \cup {gate_name},
                              variables \cup {gate_name})

\* The "Map outputs" loop: the first output not in expr_map raises; otherwise
\* output_expr is a dict keyed by output name.
MapOutputs(outputs, expr_map) ==
    LET bad == {k \in 1..Len(outputs) : outputs[k] \notin DOMAIN expr_map}
    IN IF bad # {}
       THEN LET k == CHOOSE k \in bad : \A j \in bad : k <= j
            IN [raised |-> TRUE,
                error |-> "Output signal '" \o outputs[k] \o "' is not defined in the circuit.",
                keys |-> <<>>, exprs |-> <<>>]
       ELSE [raised |-> FALSE, error |-> "",
             keys |-> DictKeys(outputs),
             exprs |-> [o \in Range(outputs) |-> expr_map[o]]]

\* "Initialize input variables": z3_vars after the loop over circuit['inputs'].
DeclareInputs(inputs, z3_vars) ==
    [n \in DOMAIN z3_vars \cup Range(inputs) |->
        IF n \in DOMAIN z3_vars THEN z3_vars[n] ELSE Bool(n)]

\* Mutant of build_z3_expr: gate signals are registered by bare name in the
\* z3_vars mapping shared by both circuits, first definition winning.
RECURSIVE ProcessGatesRegistry(_, _, _, _, _)
ProcessGatesRegistry(gates, i, expr_map, gate_names, z3_vars) ==
    IF i > Len(gates)
    THEN [raised |-> FALSE, error |-> "", expr_map |-> expr_map, z3_vars |-> z3_vars]
    ELSE LET gate_name == gates[i].name
             g == GateExpr(gate_name, Upper(gates[i].type), gates[i].inputs, expr_map)
             vars1 == IF gate_name \in DOMAIN z3_vars THEN z3_vars
                      ELSE DictSet(z3_vars, gate_name, g.expr)
         IN IF \/ gate_name \in gate_names
               \/ FirstUndefined(gates[i].inputs, expr_map) # 0
            THEN [raised |-> TRUE, error |-> "ValueError",
                  expr_map |-> expr_map, z3_vars |-> z3_vars]
            ELSE IF g.raised
            THEN [raised |-> TRUE, error |-> g.error,
                  expr_map |-> expr_map, z3_vars |-> z3_vars]
            ELSE ProcessGatesRegistry(gates, i + 1,
                                      DictSet(expr_map, gate_name, vars1[gate_name]),
                                      gate_names \cup {gate_name}, vars1)

build_z3_expr_registry(circuit, variables, z3_vars, prefix) ==
    LET vars1 == DeclareInputs(circuit.inputs, z3_vars)
        expr0 == [n \in Range(circuit.inputs) |-> vars1[n]]
        pg == ProcessGatesRegistry(circuit.gates, 1, expr0, {}, vars1)
        mo == MapOutputs(circuit.outputs, pg.expr_map)
    IN IF pg.raised
       THEN [raised |-> TRUE, error |-> pg.error, keys |-> <<>>, exprs |-> <<>>,
             variables |-> variables, z3_vars |-> pg.z3_vars]
       ELSE [raised |-> mo.raised, error |-> mo.error, keys |-> mo.keys,
             exprs |-> mo.exprs, variables |-> variables, z3_vars |-> pg.z3_vars]

\* Mutant of build_z3_expr: the outputs are resolved against the declared
\* names before the gates are processed.
build_z3_expr_outputs_first(circuit, variables, z3_vars, prefix) ==
    LET vars1 == DeclareInputs(circuit.inputs, z3_vars)
        expr0 == [n \in Range(circuit.inputs) |-> vars1[n]]
        declared == [n \in Range(circuit.inputs)
                          \cup {circuit.gates[k].name : k \in 1..Len(circuit.gates)}
                     |-> NoExpr]
        early == MapOutputs(circuit.outputs, declared)
        pg == ProcessGates(circuit.gates, 1, expr0, {},
                           variables \cup Range(circuit.inputs))
        mo == MapOutputs(circuit.outputs, pg.expr_map)
    IN IF early.raised
       THEN [raised |-> TRUE, error |-> early.error, keys |-> <<>>, exprs |-> <<>>,
             variables |-> variables, z3_vars |-> vars1]
       ELSE IF pg.raised
       THEN [raised |-> TRUE, error |-> pg.error, keys |-> <<>>, exprs |-> <<>>,
             variables |-> pg.variables, z3_vars |-> vars1]
       ELSE [raised |-> mo.raised, error |-> mo.error, keys |-> mo.keys,
             exprs |-> mo.exprs, variables |-> pg.variables, z3_vars |-> vars1]

build_z3_expr(circuit, variables, z3_vars, prefix) ==
    LET vars1 == DeclareInputs(circuit.inputs, z3_vars)
        expr0 == [n \in Range(circuit.inputs) |-> vars1[n]]
        pg == ProcessGates(circuit.gates, 1, expr0, {},
                           variables \cup Range(circuit.inputs))
        mo == MapOutputs(circuit.outputs, pg.expr_map)
    IN IF pg.raised
       THEN [raised |-> TRUE, error |-> pg.error, keys |-> <<>>, exprs |-> <<>>,
             variables |-> pg.variables, z3_vars |-> vars1]
       ELSE [raised |-> mo.raised, error |-> mo.error, keys |-> mo.keys,
             exprs |-> mo.exprs, variables |-> pg.variables, z3_vars |-> vars1]


-----------------------------------------------------------------------------
(* check_circuit_equivalence *)

NoResult ==
    [kind |-> "none", ok |-> FALSE, payload |-> "None",
     input_assignment |-> <<>>, differing_outputs |-> <<>>,
     outputs |-> <<>>, message |-> "", code |-> 0]

\* sys.exit(1) after printing the ValueError.
Exit(msg) == [NoResult EXCEPT !.kind = "exit", !.message = msg, !.code = 1]

\* return is_equiv, None
ReturnVerdict(is_equiv) == [NoResult EXCEPT !.kind = "return", !.ok = is_equiv]

\* return False, (input_assignment, differing_outputs)
ReturnCounterexample(input_assignment, differing_outputs) ==
    [NoResult EXCEPT !.kind = "return", !.ok = FALSE, !.payload = "counterexample",
                     !.input_assignment = input_assignment,
                     !.differing_outputs = differing_outputs]

\* Mutant of OutputPairs: the second circuit's outputs taken in reverse.
OutputPairsReversed(keys1, keys2) ==
    Zip(keys1, [k \in 1..Len(keys2) |-> keys2[Len(keys2) + 1 - k]])

\* output_pairs = list(zip(outputs1.keys(), outputs2.keys()))
OutputPairs(keys1, keys2) == Zip(keys1, keys2)

\* The differing_outputs list read back from a model.
DifferingOutputs(output_pairs, exprs1, exprs2, model) ==
    LET val1(p) == Eval(exprs1[p[1]], model)
        val2(p) == Eval(exprs2[p[2]], model)
        differs == {k \in 1..Len(output_pairs) :
                       val1(output_pairs[k]) # val2(output_pairs[k])}
        tuple(k) == <<output_pairs[k][1], output_pairs[k][2],
                      val1(output_pairs[k]), val2(output_pairs[k])>>
    IN [k \in 1..Cardinality(differs) |->
          tuple(CHOOSE j \in differs : Cardinality({i \in differs : i < j}) = k - 1)]

\* Every way the call can end when its z3_vars dict starts as vars0: the
\* result with the solver use it took.
check_circuit_equivalence_from(vars0, c1, c2) ==
    LET b1 == build_z3_expr(c1, {}, vars0, "c1_")
        b2 == build_z3_expr(c2, b1.variables, b1.z3_vars, "c2_")
        z3_vars == b2.z3_vars
        output_pairs == OutputPairs(b1.keys, b2.keys)
        diff_constraints ==
            [k \in 1..Len(output_pairs) |->
                <<"ne", b1.exprs[output_pairs[k][1]], b2.exprs[output_pairs[k][2]]>>]
        models == SolverModels(<< <<"or", diff_constraints>> >>, z3_vars)
    IN IF b1.raised
       THEN {[result |-> Exit(b1.error), solver |-> "none", checks |-> 0,
              miter_pairs |-> <<>>, solver_model |-> <<>>]}
       ELSE IF b2.raised
       THEN {[result |-> Exit(b2.error), solver |-> "none", checks |-> 0,
              miter_pairs |-> <<>>, solver_model |-> <<>>]}
       ELSE IF Len(b1.keys) # Len(b2.keys)
       THEN {[result |-> ReturnVerdict(FALSE), solver |-> "none", checks |-> 0,
              miter_pairs |-> <<>>, solver_model |-> <<>>]}
       ELSE IF SolverCheck(models) = "sat"
       THEN {[result |->
                 ReturnCounterexample(
                     [v \in Range(c1.inputs) \cap DOMAIN z3_vars |-> Eval(z3_vars[v], m)],
                     DifferingOutputs(output_pairs, b1.exprs, b2.exprs, m)),
              solver |-> "created", checks |-> 1,
              miter_pairs |-> output_pairs, solver_model |-> m] : m \in models}
       ELSE {[result |-> ReturnVerdict(TRUE), solver |-> "created", checks |-> 1,
              miter_pairs |-> output_pairs, solver_model |-> <<>>]}

check_circuit_equivalence(c1, c2) == check_circuit_equivalence_from(FreshZ3Vars, c1, c2)

\* The z3_vars dict as the call leaves it.
EquivalenceVars(vars0, c1, c2) ==
    LET b1 == build_z3_expr(c1, {}, vars0, "c1_")
    IN IF b1.raised THEN b1.z3_vars
       ELSE build_z3_expr(c2, b1.variables, b1.z3_vars, "c2_").z3_vars

CheckCircuitEquivalence ==
    /\ pc = "ready"
    /\ op = "equivalence"
    /\ call_z3_vars' = EquivalenceVars(FreshZ3Vars, circuit1, circuit2)
    /\ \E o \in check_circuit_equivalence(circuit1, circuit2) :
          /\ result' = o.result
          /\ solver' = o.solver
          /\ checks' = o.checks
          /\ miter_pairs' = o.miter_pairs
          /\ solver_model' = o.solver_model
    /\ pc' = "done"
    /\ earlier_signals' = earlier_signals \cup DOMAIN call_z3_vars
    /\ UNCHANGED <<op, circuit1, circuit2, input_assignments, signal_assignments,
                   oracle, passed>>


-----------------------------------------------------------------------------
(* build_z3_expr of circuit-evaluator.py: one Bool variable per gate plus *)
(* the constraint that defines it                                         *)

\* Mutant of GateConstraint: the NAND branch copied from AND without its Not,
\* the XNOR branch from XOR likewise.
GateConstraintUnnegated(gate_name, gate_type, gate_inputs, expr_map, gate_output) ==
    LET ins == [k \in 1..Len(gate_inputs) |-> expr_map[gate_inputs[k]]]
    IN CASE gate_type \in {"AND", "NAND"} -> Built(<<"eq", gate_output, <<"and", ins>>>>)
         [] gate_type = "OR" -> Built(<<"eq", gate_output, <<"or", ins>>>>)
         [] gate_type = "NOT" ->
              IF Len(gate_inputs) # 1 THEN Raised("NOT gate") 
              ELSE Built(<<"eq", gate_output, <<"not", ins[1]>>>>)
         [] gate_type = "NOR" -> Built(<<"eq", gate_output, <<"not", <<"or", ins>>>>>>)
         [] gate_type \in {"XOR", "XNOR"} ->
              IF Len(gate_inputs) # 2 THEN Raised("XOR gate")
              ELSE Built(<<"eq", gate_output, <<"xor", ins[1], ins[2]>>>>)
         [] OTHER -> Raised("Unsupported gate type: " \o gate_type)

\* The if/elif chain creating the defining constraint of one gate.
GateConstraint(gate_name, gate_type, gate_inputs, expr_map, gate_output) ==
    LET ins == [k \in 1..Len(gate_inputs) |-> expr_map[gate_inputs[k]]]
    IN CASE gate_type = "AND" -> Built(<<"eq", gate_output, <<"and", ins>>>>)
         [] gate_type = "OR" -> Built(<<"eq", gate_output, <<"or", ins>>>>)
         [] gate_type = "NOT" ->
              IF Len(gate_inputs) # 1
              THEN Raised("NOT gate '" \o gate_name \o "' must have exactly one input.")
              ELSE Built(<<"eq", gate_output, <<"not", ins[1]>>>>)
         [] gate_type = "NAND" -> Built(<<"eq", gate_output, <<"not", <<"and", ins>>>>>>)
         [] gate_type = "NOR" -> Built(<<"eq", gate_output, <<"not", <<"or", ins>>>>>>)
         [] gate_type = "XOR" ->
              IF Len(gate_inputs) # 2
              THEN Raised("XOR gate '" \o gate_name \o "' must have exactly two inputs.")
              ELSE Built(<<"eq", gate_output, <<"xor", ins[1], ins[2]>>>>)
         [] gate_type = "XNOR" ->
              IF Len(gate_inputs) # 2
              THEN Raised("XNOR gate '" \o gate_name \o "' must have exactly two inputs.")
              ELSE Built(<<"eq", gate_output, <<"not", <<"xor", ins[1], ins[2]>>>>>>)
         [] OTHER -> Raised("Unsupported gate type: " \o gate_type)

\* The "Process gates" loop of the validator from gate i on.
RECURSIVE ProcessGatesConstrained(_, _, _, _, _, _)
ProcessGatesConstrained(gates, i, expr_map, gate_names, z3_vars, constraints) ==
    IF i > Len(gates)
    THEN [raised |-> FALSE, error |-> "", expr_map |-> expr_map,
          z3_vars |-> z3_vars, constraints |-> constraints]
    ELSE LET gate_name == gates[i].name
             gate_type == Upper(gates[i].type)
             gate_inputs == gates[i].inputs
             undef == FirstUndefined(gate_inputs, expr_map)
             vars1 == IF gate_name \in DOMAIN z3_vars THEN z3_vars
                      ELSE DictSet(z3_vars, gate_name, Bool(gate_name))
             gate_output == vars1[gate_name]
             g == GateConstraint(gate_name, gate_type, gate_inputs, expr_map, gate_output)
         IN IF gate_name \in gate_names
            THEN [raised |-> TRUE,
                  error |-> "Duplicate gate name '" \o gate_name \o "' in circuit.",
                  expr_map |-> expr_map, z3_vars |-> z3_vars, constraints |-> constraints]
            ELSE IF undef # 0
            THEN [raised |-> TRUE,
                  error |-> "Signal '" \o gate_inputs[undef] \o "' used in gate '"
                            \o gate_name \o "' is not defined.",
                  expr_map |-> expr_map, z3_vars |-> z3_vars, constraints |-> constraints]
            ELSE IF g.raised
            THEN [raised |-> TRUE, error |-> g.error,
                  expr_map |-> expr_map, z3_vars |-> vars1, constraints |-> constraints]
            ELSE ProcessGatesConstrained(gates, i + 1,
                                         DictSet(expr_map, gate_name, gate_output),
                                         gate_names \cup {gate_name}, vars1,
                                         Append(constraints, g.expr))

build_z3_expr_validator(circuit, z3_vars) ==
    LET vars1 == DeclareInputs(circuit.inputs, z3_vars)
        expr0 == [n \in Range(circuit.inputs) |-> vars1[n]]
        pg == ProcessGatesConstrained(circuit.gates, 1, expr0, {}, vars1, <<>>)
        mo == MapOutputs(circuit.outputs, pg.expr_map)
    IN IF pg.raised
       THEN [raised |-> TRUE, error |-> pg.error, keys |-> <<>>, exprs |-> <<>>,
             constraints |-> <<>>, z3_vars |-> pg.z3_vars]
       ELSE [raised |-> mo.raised, error |-> mo.error, keys |-> mo.keys,
             exprs |-> mo.exprs, constraints |-> pg.constraints, z3_vars |-> pg.z3_vars]

-----------------------------------------------------------------------------
(* validate_circuit *)

\* return False, <message>
ReturnFailure(msg) ==
    [NoResult EXCEPT !.kind = "return", !.ok = FALSE, !.payload = "message",
                     !.message = msg]

\* return True, output_values
ReturnOutputs(output_values) ==
    [NoResult EXCEPT !.kind = "return", !.ok = TRUE, !.payload = "outputs",
                     !.outputs = output_values]

ContradictionMessage ==
    "Contradiction detected: The input or signal assignments lead to an unsatisfiable circuit."

\* Mutant of Literal: the value of the assignment is not looked at.
LiteralPositive(z3_vars, n, val) == z3_vars[n]

\* z3_vars[n] if val else Not(z3_vars[n])
Literal(z3_vars, n, val) == IF val THEN z3_vars[n] ELSE <<"not", z3_vars[n]>>

\* Index of the first entry of an assignment dict whose name is not in
\* `known` (0: none).
FirstUnknown(assignments, known) ==
    LET bad == {k \in 1..Len(assignments) : assignments[k][1] \notin known}
    IN IF bad = {} THEN 0 ELSE CHOOSE k \in bad : \A j \in bad : k <= j

\* Mutant of validate_circuit: the solver is queried on the assignments to
\* known names before the names are checked.
validate_circuit_query_first(circuit, input_asg, signal_asg) ==
    LET b == build_z3_expr_validator(circuit, <<>>)
        z3_vars == b.z3_vars
        known(asg, names) ==
            {k \in 1..Len(asg) : asg[k][1] \in names}
        literals(asg, names) ==
            {Literal(z3_vars, asg[k][1], asg[k][2]) : k \in known(asg, names)}
        models == {m \in SolverModels(b.constraints, z3_vars) :
                      /\ \A e \in literals(input_asg, Range(circuit.inputs)) : Eval(e, m)
                      /\ \A e \in literals(signal_asg, DOMAIN z3_vars) : Eval(e, m)}
        badInput == FirstUnknown(input_asg, Range(circuit.inputs))
        badSignal == FirstUnknown(signal_asg, DOMAIN z3_vars)
    IN IF b.raised
       THEN {[result |-> ReturnFailure(b.error), solver |-> "none", checks |-> 0,
              miter_pairs |-> <<>>, solver_model |-> <<>>]}
       ELSE IF models = {}
       THEN {[result |-> ReturnFailure(ContradictionMessage),
              solver |-> "created", checks |-> 1,
              miter_pairs |-> <<>>, solver_model |-> <<>>]}
       ELSE IF badInput # 0 \/ badSignal # 0
       THEN {[result |-> ReturnFailure("Input or signal is not defined in the circuit."),
              solver |-> "created", checks |-> 1,
              miter_pairs |-> <<>>, solver_model |-> <<>>]}
       ELSE {[result |-> ReturnOutputs([o \in Range(circuit.outputs) |->
                                           Eval(b.exprs[o], m)]),
              solver |-> "created", checks |-> 1,
              miter_pairs |-> <<>>, solver_model |-> m] : m \in models}

\* Every way the call can end when its z3_vars dict starts as vars0: the
\* result with the solver use it took.
validate_circuit_from(vars0, circuit, input_asg, signal_asg) ==
    LET b == build_z3_expr_validator(circuit, vars0)
        z3_vars == b.z3_vars
        badInput == FirstUnknown(input_asg, Range(circuit.inputs))
        badSignal == FirstUnknown(signal_asg, DOMAIN z3_vars)
        assertions ==
            b.constraints
            \o [k \in 1..Len(input_asg) |->
                   Literal(z3_vars, input_asg[k][1], input_asg[k][2])]
            \o [k \in 1..Len(signal_asg) |->
                   Literal(z3_vars, signal_asg[k][1], signal_asg[k][2])]
        models == SolverModels(assertions, z3_vars)
    IN IF b.raised
       THEN {[result |-> ReturnFailure(b.error), solver |-> "none", checks |-> 0,
              miter_pairs |-> <<>>, solver_model |-> <<>>]}
       ELSE IF badInput # 0
       THEN {[result |-> ReturnFailure("Input '" \o input_asg[badInput][1]
                                       \o "' is not defined in the circuit."),
              solver |-> "created", checks |-> 0,
              miter_pairs |-> <<>>, solver_model |-> <<>>]}
       ELSE IF badSignal # 0
       THEN {[result |-> ReturnFailure("Signal '" \o signal_asg[badSignal][1]
                                       \o "' is not defined in the circuit."),
              solver |-> "created", checks |-> 0,
              miter_pairs |-> <<>>, solver_model |-> <<>>]}
       ELSE IF SolverCheck(models) = "sat"
       THEN {[result |-> ReturnOutputs([o \in Range(circuit.outputs) |->
                                           Eval(b.exprs[o], m)]),
              solver |-> "created", checks |-> 1,
              miter_pairs |-> <<>>, solver_model |-> m] : m \in models}
       ELSE {[result |-> ReturnFailure(ContradictionMessage),
              solver |-> "created", checks |-> 1,
              miter_pairs |-> <<>>, solver_model |-> <<>>]}

validate_circuit(circuit, input_asg, signal_asg) ==
    validate_circuit_from(FreshZ3Vars, circuit, input_asg, signal_asg)

ValidateCircuit ==
    /\ pc = "ready"
    /\ op = "validate"
    /\ call_z3_vars' = build_z3_expr_validator(circuit1, FreshZ3Vars).z3_vars
    /\ \E o \in validate_circuit(circuit1, input_assignments, signal_assignments) :
          /\ result' = o.result
          /\ solver' = o.solver
          /\ checks' = o.checks
          /\ miter_pairs' = o.miter_pairs
          /\ solver_model' = o.solver_model
    /\ pc' = "done"
    /\ earlier_signals' = earlier_signals \cup DOMAIN call_z3_vars
    /\ UNCHANGED <<op, circuit1, circuit2, input_assignments, signal_assignments,
                   oracle, passed>>

-----------------------------------------------------------------------------
(* The circuits and assignments the calls are made with *)

MaxFanIn == 2
MaxOutputs == 2

InputNames == <<"A", "B">>
GateNames == <<"D", "E">>
SupportedTypes == {"AND", "OR", "NOT", "NAND", "NOR", "XOR", "XNOR"}

SeqsOf(S, lo, hi) == UNION {[1..k -> S] : k \in lo..hi}

\* Section 3 of the data model: NOT takes one input, XOR/XNOR two, the others
\* one or more.
ArityOk(type, n) ==
    CASE type = "NOT" -> n = 1
      [] type \in {"XOR", "XNOR"} -> n = 2
      [] OTHER -> n >= 1

\* Position of a signal name in the order inputs first, then gates.
Rank(n) ==
    LET all == InputNames \o GateNames
    IN CHOOSE k \in 1..Len(all) : all[k] = n

Increasing(s) == \A k \in 1..(Len(s) - 1) : Rank(s[k]) < Rank(s[k + 1])

\* Gates of a supported type and a legal arity reading the signals `defined`,
\* each signal at most once and in rank order.
WellFormedGates(defined, names) ==
    {g \in [name : names, type : SupportedTypes,
            inputs : SeqsOf(defined, 1, MaxFanIn)] :
        ArityOk(g.type, Len(g.inputs)) /\ Increasing(g.inputs)}

Signals(inputs, gates) == Range(inputs) \cup {gates[k].name : k \in 1..Len(gates)}

CircuitsOver(inputs, gateLists) ==
    UNION {[inputs : {inputs}, gates : {gs},
            outputs : SeqsOf(Signals(inputs, gs), 1, MaxOutputs)] : gs \in gateLists}

\* Structurally valid circuits with at most one gate, of either name.
SmallCircuits ==
    CircuitsOver(InputNames,
                 {<<>>} \cup {<<g>> : g \in WellFormedGates(Range(InputNames),
                                                          Range(GateNames))})

\* Structurally valid circuits of one gate per gate name, in name order, each
\* gate after the first reading the gate before it.
RECURSIVE ChainLists(_, _)
ChainLists(front, k) ==
    IF k > Len(GateNames) THEN {front}
    ELSE LET defined == Signals(InputNames, front)
             next == {g \in WellFormedGates(defined, {GateNames[k]}) :
                         k > 1 => GateNames[k - 1] \in Range(g.inputs)}
         IN UNION {ChainLists(Append(front, g), k + 1) : g \in next}

ChainCircuits == CircuitsOver(InputNames, ChainLists(<<>>, 1))

RichCircuits == SmallCircuits \cup ChainCircuits

\* A circuit with its gate names exchanged (first with last) throughout.
SwapName(n) ==
    IF n = GateNames[1] THEN GateNames[Len(GateNames)]
    ELSE IF n = GateNames[Len(GateNames)] THEN GateNames[1]
    ELSE n

MapNames(c, f(_)) ==
    [inputs |-> c.inputs,
     gates |-> [k \in 1..Len(c.gates) |->
                  [name |-> f(c.gates[k].name), type |-> c.gates[k].type,
                   inputs |-> [j \in 1..Len(c.gates[k].inputs) |->
                                  IF c.gates[k].inputs[j] \in Range(c.inputs)
                                  THEN c.gates[k].inputs[j]
                                  ELSE f(c.gates[k].inputs[j])]]],
     outputs |-> [k \in 1..Len(c.outputs) |->
                    IF c.outputs[k] \in Range(c.inputs) THEN c.outputs[k]
                    ELSE f(c.outputs[k])]]

Reverse(s) == [k \in 1..Len(s) |-> s[Len(s) + 1 - k]]

\* The type a slip would write instead: AND/OR, NAND/NOR, XOR/XNOR exchanged.
FlipType(t) ==
    CASE t = "AND" -> "OR" [] t = "OR" -> "AND"
      [] t = "NAND" -> "NOR" [] t = "NOR" -> "NAND"
      [] t = "XOR" -> "XNOR" [] t = "XNOR" -> "XOR"
      [] OTHER -> "NAND"

\* The same gate type as a caller may spell it.
Respell(t) ==
    CASE t = "AND" -> "and" [] t = "OR" -> "or" [] t = "NOT" -> "not"
      [] t = "XOR" -> "Xor" [] OTHER -> t

Respelled(c) ==
    [c EXCEPT !.gates = [k \in 1..Len(c.gates) |->
                           [c.gates[k] EXCEPT !.type = Respell(c.gates[k].type)]]]

\* Circuits derived from c: itself, its types respelled, its gates renamed,
\* its outputs reversed, its last gate's type changed.
Variants(c) ==
    {c,
     Respelled(c),
     MapNames(c, SwapName),
     [c EXCEPT !.outputs = Reverse(c.outputs)],
     [c EXCEPT !.gates = [k \in 1..Len(c.gates) |->
                            IF k = Len(c.gates)
                            THEN [c.gates[k] EXCEPT !.type = FlipType(c.gates[k].type)]
                            ELSE c.gates[k]]]}

\* Gate-free circuits passing the inputs through, one output more than the
\* others may list.
WideCircuits ==
    [inputs : {InputNames}, gates : {<<>>},
     outputs : SeqsOf(Range(InputNames), 1, MaxOutputs + 1)]

\* Circuits over the first primary input alone, whose one gate carries the
\* name the other circuits use for their last primary input.
NarrowCircuits ==
    LET inputs == SubSeq(InputNames, 1, Len(InputNames) - 1)
    IN CircuitsOver(inputs,
                    {<<g>> : g \in WellFormedGates(Range(inputs),
                                                   {InputNames[Len(InputNames)]})})

NoCircuit == [inputs |-> <<>>, gates |-> <<>>, outputs |-> <<>>]

\* The circuits validate_circuit is called with.
ValCircuits ==
    SmallCircuits
    \cup {Respelled(c) : c \in SmallCircuits}
    \cup {c \in ChainCircuits : Increasing(c.outputs)}

\* A name no circuit defines.
UnknownName == "Z"

\* Python dicts {name: bool} as sequences of <<name, value>> in insertion
\* order: every total assignment of the names in `keys`, in that order.
DictsOver(keys) ==
    {[k \in 1..Len(keys) |-> <<keys[k], vals[k]>>] : vals \in [1..Len(keys) -> BOOLEAN]}

SubSeqsOf(s) ==
    {<<>>} \cup {<<s[i]>> : i \in 1..Len(s)}
           \cup {<<s[i], s[j]>> : i, j \in 1..Len(s)}

\* input_assignments: any assignment of some primary inputs in declaration
\* order, and assignments naming an unknown input or a gate.
InputDicts ==
    UNION {DictsOver(ks) : ks \in {t \in SubSeqsOf(InputNames) : Increasing(t)}}
    \cup {<<<<UnknownName, TRUE>>>>,
          <<<<InputNames[1], TRUE>>, <<UnknownName, FALSE>>>>,
          <<<<UnknownName, TRUE>>, <<InputNames[1], FALSE>>>>,
          <<<<GateNames[1], TRUE>>>>}

\* signal_assignments: nothing, one forced signal, every gate forced, and
\* assignments naming an unknown signal.
SignalDicts ==
    {<<>>}
    \cup UNION {DictsOver(<<n>>) : n \in {InputNames[1]} \cup Range(GateNames)}
    \cup DictsOver(GateNames)
    \cup {<<<<UnknownName, TRUE>>>>,
          <<<<GateNames[1], TRUE>>, <<UnknownName, FALSE>>>>}

InitVal ==
    /\ op = "validate"
    /\ circuit1 \in ValCircuits
    /\ circuit2 = NoCircuit
    /\ input_assignments \in InputDicts
    /\ signal_assignments \in SignalDicts
    /\ pc = "ready"
    /\ solver = "none"
    /\ checks = 0
    /\ miter_pairs = <<>>
    /\ solver_model = <<>>
    /\ result = NoResult
    /\ oracle = "decides"
    /\ call_z3_vars = <<>>
    /\ earlier_signals = {}
    /\ passed = Arguments_now

NextVal == ValidateCircuit

SpecVal == InitVal /\ [][NextVal]_vars

\* Circuit definitions as a caller may write them, well formed or not: one
\* primary input, up to one gate per gate name slot with any of the names, a
\* type spelled in or outside the vocabulary, and any fan-in over the names
\* in use, defined at that point or not.
StructInputs == <<InputNames[1]>>
StructNames == Range(StructInputs) \cup Range(GateNames)
StructTypes == SupportedTypes \cup {"not", "BUFF", "buff"}

StructGates ==
    {g \in [name : Range(GateNames), type : StructTypes,
            inputs : SeqsOf(StructNames, 0, MaxFanIn)] : Increasing(g.inputs)}

StructGateLists ==
    {<<>>} \cup {<<g>> : g \in StructGates}
           \cup {<<g, h>> : g \in StructGates, h \in StructGates}

StructCircuits ==
    [inputs : {StructInputs}, gates : StructGateLists,
     outputs : {o \in SeqsOf(StructNames, 0, MaxOutputs) : Increasing(o)}]

\* The well-formed circuit a written circuit is compared with.
PartnerCircuit ==
    [inputs |-> StructInputs, gates |-> <<>>, outputs |-> StructInputs]

InitStruct ==
    /\ \/ /\ op = "validate"
          /\ circuit1 \in StructCircuits
          /\ circuit2 = NoCircuit
          /\ input_assignments \in DictsOver(StructInputs)
       \/ /\ op = "equivalence"
          /\ circuit1 \in StructCircuits
          /\ circuit2 = PartnerCircuit
          /\ input_assignments = <<>>
       \/ /\ op = "equivalence"
          /\ circuit1 = PartnerCircuit
          /\ circuit2 \in StructCircuits
          /\ input_assignments = <<>>
       \/ /\ op = "equivalence"
          /\ circuit1 \in {c \in StructCircuits : c.outputs = <<>>}
          /\ circuit2 = [PartnerCircuit EXCEPT !.outputs = <<>>]
          /\ input_assignments = <<>>
    /\ signal_assignments = <<>>
    /\ pc = "ready"
    /\ solver = "none"
    /\ checks = 0
    /\ miter_pairs = <<>>
    /\ solver_model = <<>>
    /\ result = NoResult
    /\ oracle = "decides"
    /\ call_z3_vars = <<>>
    /\ earlier_signals = {}
    /\ passed = Arguments_now

NextStruct == CheckCircuitEquivalence \/ ValidateCircuit

SpecStruct == InitStruct /\ [][NextStruct]_vars

\* Circuits of one or two well-formed gates whose names are drawn from the
\* primary inputs as well as from the gate names.
ClashNames == Range(InputNames) \cup {GateNames[1]}

ClashGateLists ==
    LET first == WellFormedGates(Range(InputNames), ClashNames)
    IN {<<g>> : g \in first}
       \cup UNION {{<<g, h>> : h \in WellFormedGates(Range(InputNames) \cup {g.name},
                                                    ClashNames \ {g.name})} :
                      g \in first}

ClashCircuits == CircuitsOver(InputNames, ClashGateLists)

\* The gate-free circuits a circuit of ClashCircuits is compared with.
PlainCircuits ==
    {[inputs |-> InputNames, gates |-> <<>>, outputs |-> o] :
        o \in {<<InputNames[1]>>, InputNames}}

InitNamespace ==
    /\ \/ /\ op = "validate"
          /\ circuit1 \in ClashCircuits
          /\ circuit2 = NoCircuit
          /\ input_assignments \in DictsOver(InputNames)
       \/ /\ op = "equivalence"
          /\ circuit1 \in ClashCircuits
          /\ circuit2 \in PlainCircuits
          /\ input_assignments = <<>>
       \/ /\ op = "equivalence"
          /\ circuit1 \in PlainCircuits
          /\ circuit2 \in ClashCircuits
          /\ input_assignments = <<>>
    /\ signal_assignments = <<>>
    /\ pc = "ready"
    /\ solver = "none"
    /\ checks = 0
    /\ miter_pairs = <<>>
    /\ solver_model = <<>>
    /\ result = NoResult
    /\ oracle = "decides"
    /\ call_z3_vars = <<>>
    /\ earlier_signals = {}
    /\ passed = Arguments_now

NextNamespace == CheckCircuitEquivalence \/ ValidateCircuit

SpecNamespace == InitNamespace /\ [][NextNamespace]_vars

\* The circuits of a caller that makes one call after the other: the
\* gate-free circuit, one-gate circuits under either gate name, and circuits
\* the compiler refuses.
SeqCircuits ==
    LET gate(n, t, ins) == [name |-> n, type |-> t, inputs |-> ins]
        circuit(gs, outs) == [inputs |-> InputNames, gates |-> gs, outputs |-> outs]
        a == InputNames[1]
        b == InputNames[2]
        d == GateNames[1]
        e == GateNames[2]
    IN {circuit(<<>>, <<a>>),
        circuit(<<gate(d, "NOT", <<a>>)>>, <<d>>),
        circuit(<<gate(d, "AND", <<a, b>>)>>, <<d>>),
        circuit(<<gate(e, "NOT", <<a>>)>>, <<e>>),
        circuit(<<gate(e, "OR", <<a, b>>)>>, <<e>>),
        circuit(<<gate(d, "NOT", <<a, b>>)>>, <<d>>),
        circuit(<<gate(d, "NOT", <<a>>), gate(d, "NOT", <<b>>)>>, <<d>>),
        circuit(<<gate(e, "XOR", <<a, b>>)>>, <<d>>)}

\* The calls of such a caller.
SeqCalls ==
    [op : {"validate"}, circuit1 : SeqCircuits, circuit2 : {NoCircuit},
     input_assignments : {ia \in DictsOver(InputNames) : ia[1][2]},
     signal_assignments : {<<>>} \cup {<<<<n, TRUE>>>> : n \in Range(GateNames)}]
    \cup [op : {"equivalence"}, circuit1 : SeqCircuits, circuit2 : SeqCircuits,
          input_assignments : {<<>>}, signal_assignments : {<<>>}]

InitSeq ==
    /\ \E q \in SeqCalls :
          /\ op = q.op
          /\ circuit1 = q.circuit1
          /\ circuit2 = q.circuit2
          /\ input_assignments = q.input_assignments
          /\ signal_assignments = q.signal_assignments
    /\ pc = "ready"
    /\ solver = "none"
    /\ checks = 0
    /\ miter_pairs = <<>>
    /\ solver_model = <<>>
    /\ result = NoResult
    /\ oracle = "decides"
    /\ call_z3_vars = <<>>
    /\ earlier_signals = {}
    /\ passed = Arguments_now

\* The caller has its result and makes its next call: the frame of the call
\* that returned is gone, the arguments are new.
NextQuery ==
    /\ pc = "done"
    /\ \E q \in SeqCalls :
          /\ op' = q.op
          /\ circuit1' = q.circuit1
          /\ circuit2' = q.circuit2
          /\ input_assignments' = q.input_assignments
          /\ signal_assignments' = q.signal_assignments
    /\ pc' = "ready"
    /\ solver' = "none"
    /\ checks' = 0
    /\ miter_pairs' = <<>>
    /\ solver_model' = <<>>
    /\ result' = NoResult
    /\ passed' = Arguments_now'
    /\ UNCHANGED <<oracle, call_z3_vars, earlier_signals>>

NextSeq == CheckCircuitEquivalence \/ ValidateCircuit \/ NextQuery

SpecSeq == InitSeq /\ [][NextSeq]_vars

\* Calls whose solver may give up on the query.
InitOracle ==
    /\ \/ /\ op = "validate"
          /\ circuit1 \in SmallCircuits
          /\ circuit2 = NoCircuit
          /\ input_assignments \in DictsOver(InputNames)
       \/ /\ op = "equivalence"
          /\ circuit1 \in SmallCircuits
          /\ circuit2 \in WideCircuits
          /\ input_assignments = <<>>
    /\ signal_assignments = <<>>
    /\ pc = "ready"
    /\ solver = "none"
    /\ checks = 0
    /\ miter_pairs = <<>>
    /\ solver_model = <<>>
    /\ result = NoResult
    /\ oracle \in {"decides", "unknown"}
    /\ call_z3_vars = <<>>
    /\ earlier_signals = {}
    /\ passed = Arguments_now

NextOracle == CheckCircuitEquivalence \/ ValidateCircuit

SpecOracle == InitOracle /\ [][NextOracle]_vars

InitEq ==
    /\ op = "equivalence"
    /\ \/ circuit1 \in SmallCircuits /\ circuit2 \in SmallCircuits
       \/ circuit1 \in WideCircuits /\ circuit2 \in WideCircuits
       \/ \E c \in ChainCircuits : \E v \in Variants(c) :
             \/ circuit1 = c /\ circuit2 = v
             \/ circuit1 = v /\ circuit2 = c
       \/ \E c \in SmallCircuits : \E n \in NarrowCircuits :
             \/ circuit1 = c /\ circuit2 = n
             \/ circuit1 = n /\ circuit2 = c
    /\ input_assignments = <<>>
    /\ signal_assignments = <<>>
    /\ pc = "ready"
    /\ solver = "none"
    /\ checks = 0
    /\ miter_pairs = <<>>
    /\ solver_model = <<>>
    /\ result = NoResult
    /\ oracle = "decides"
    /\ call_z3_vars = <<>>
    /\ earlier_signals = {}
    /\ passed = Arguments_now

NextEq == CheckCircuitEquivalence

SpecEq == InitEq /\ [][NextEq]_vars

-----------------------------------------------------------------------------
(* Reference semantics the properties are stated against: the circuit     *)
(* simulated gate by gate on concrete truth values, and the data model's  *)
(* structural rules                                                        *)

\* Gate types are case-insensitive: the vocabulary entry a type string denotes.
Vocabulary(type) ==
    CASE type \in {"AND", "and"} -> "AND"
      [] type \in {"OR", "or"} -> "OR"
      [] type \in {"NOT", "not"} -> "NOT"
      [] type \in {"NAND"} -> "NAND"
      [] type \in {"NOR"} -> "NOR"
      [] type \in {"XOR", "Xor"} -> "XOR"
      [] type \in {"XNOR"} -> "XNOR"
      [] OTHER -> "unsupported"

\* The boolean function of a gate type on the values of its inputs.
GateFunction(type, vals) ==
    LET all == \A k \in 1..Len(vals) : vals[k]
        some == \E k \in 1..Len(vals) : vals[k]
    IN CASE Vocabulary(type) = "AND" -> all
         [] Vocabulary(type) = "OR" -> some
         [] Vocabulary(type) = "NOT" -> ~vals[1]
         [] Vocabulary(type) = "NAND" -> ~all
         [] Vocabulary(type) = "NOR" -> ~some
         [] Vocabulary(type) = "XOR" -> vals[1] # vals[2]
         [] Vocabulary(type) = "XNOR" -> vals[1] = vals[2]

\* The value of every signal after the gates from i on ran in sequence order.
RECURSIVE Simulate(_, _, _)
Simulate(gates, i, values) ==
    IF i > Len(gates) THEN values
    ELSE LET vals == [k \in 1..Len(gates[i].inputs) |-> values[gates[i].inputs[k]]]
         IN Simulate(gates, i + 1,
                     [n \in DOMAIN values \cup {gates[i].name} |->
                         IF n = gates[i].name THEN GateFunction(gates[i].type, vals)
                         ELSE values[n]])

\* Signal values of circuit c under the input assignment a (a may assign more
\* names than c reads).
SignalValues(c, a) == Simulate(c.gates, 1, [n \in Range(c.inputs) |-> a[n]])

InputAssignmentsOf(c) == [Range(c.inputs) -> BOOLEAN]

\* The invariants of the data model (section 3).
StructurallyValid(c) ==
    /\ \A i, j \in 1..Len(c.gates) : i # j => c.gates[i].name # c.gates[j].name
    /\ \A i \in 1..Len(c.gates) : c.gates[i].name \notin Range(c.inputs)
    /\ \A i \in 1..Len(c.gates) : \A k \in 1..Len(c.gates[i].inputs) :
          c.gates[i].inputs[k] \in
              Range(c.inputs) \cup {c.gates[j].name : j \in 1..(i - 1)}
    /\ \A i \in 1..Len(c.gates) :
          /\ Vocabulary(c.gates[i].type) # "unsupported"
          /\ ArityOk(Vocabulary(c.gates[i].type), Len(c.gates[i].inputs))
    /\ c.outputs # <<>>
    /\ \A k \in 1..Len(c.outputs) : c.outputs[k] \in Signals(c.inputs, c.gates)

\* The positional output pairs <<i-th output of c1, i-th output of c2>>.
PositionalPairs(c1, c2) ==
    {<<c1.outputs[i], c2.outputs[i]>> :
        i \in 1..(IF Len(c1.outputs) < Len(c2.outputs)
                  THEN Len(c1.outputs) ELSE Len(c2.outputs))}

\* Both circuits give the same value at every output position for every one
\* of the 2^|inputs| input assignments.
SemanticallyEquivalent(c1, c2) ==
    \A a \in InputAssignmentsOf(c1) :
        \A i \in 1..Len(c1.outputs) :
            SignalValues(c1, a)[c1.outputs[i]] = SignalValues(c2, a)[c2.outputs[i]]

EquivalenceDone == pc = "done" /\ op = "equivalence"

BothValid == StructurallyValid(circuit1) /\ StructurallyValid(circuit2)

-----------------------------------------------------------------------------
(* Properties of check_circuit_equivalence *)

\* C1: for structurally valid circuits with the same primary inputs and the
\* same number of outputs, the call returns Equivalent (True, None) exactly
\* when every input assignment gives equal values at every output position,
\* and NotEquivalent otherwise.
C1_VerdictIffSemanticallyEquivalent ==
    (/\ EquivalenceDone
     /\ BothValid
     /\ circuit1.inputs = circuit2.inputs
     /\ Len(circuit1.outputs) = Len(circuit2.outputs))
    => /\ result.kind = "return"
       /\ result.ok <=> SemanticallyEquivalent(circuit1, circuit2)
       /\ result.ok => result.payload = "None"

\* C2: a NotEquivalent result with a counterexample lists a non-empty
\* differing_outputs holding exactly the positional output pairs whose values
\* disagree under the witnessing model, each with the two values the circuits
\* produce there.
C2_DifferingOutputsExact ==
    (/\ EquivalenceDone
     /\ BothValid
     /\ Len(circuit1.outputs) = Len(circuit2.outputs)
     /\ result.payload = "counterexample")
    => /\ result.differing_outputs # <<>>
       /\ Range(result.differing_outputs) =
            {<<p[1], p[2], SignalValues(circuit1, solver_model)[p[1]],
                           SignalValues(circuit2, solver_model)[p[2]]>> :
                p \in {q \in PositionalPairs(circuit1, circuit2) :
                          SignalValues(circuit1, solver_model)[q[1]]
                          # SignalValues(circuit2, solver_model)[q[2]]}}

\* C3: for structurally valid circuits whose outputs sequences differ in
\* length, the call returns (False, None) without creating a solver or
\* issuing a query.
C3_OutputCountMismatch ==
    (/\ EquivalenceDone
     /\ BothValid
     /\ Len(circuit1.outputs) # Len(circuit2.outputs))
    => /\ result = ReturnVerdict(FALSE)
       /\ solver = "none"
       /\ checks = 0

\* C4: for outputs sequences of equal length the miter holds exactly the
\* positional pairs <<circuit1.outputs[i], circuit2.outputs[i]>>.
C4_MiterIsPositional ==
    (/\ EquivalenceDone
     /\ BothValid
     /\ Len(circuit1.outputs) = Len(circuit2.outputs))
    => /\ solver = "created"
       /\ Range(miter_pairs) = PositionalPairs(circuit1, circuit2)

\* A circuit with every gate signal renamed to a name no circuit uses.
FreshName(n) == n \o "_"
Fresh(c) == MapNames(c, FreshName)

\* C5: gate signals are private to each circuit: the verdict on two
\* structurally valid circuits is the verdict on the same two circuits with
\* the gates of either one consistently renamed to fresh names, whatever gate
\* or input names the two share.
C5_GateNamesPrivate ==
    (EquivalenceDone /\ BothValid)
    => /\ \A o \in check_circuit_equivalence(circuit1, Fresh(circuit2)) :
             o.result.kind = result.kind /\ o.result.ok = result.ok
       /\ \A o \in check_circuit_equivalence(Fresh(circuit1), circuit2) :
             o.result.kind = result.kind /\ o.result.ok = result.ok

\* Both circuits chain two gates, the first gate of one carries the name of
\* the last gate of the other with another type, and the verdict is Equivalent.
C5_Witness ==
    /\ EquivalenceDone
    /\ Len(circuit1.gates) = 2 /\ Len(circuit2.gates) = 2
    /\ circuit1.gates[1].name = circuit2.gates[2].name
    /\ circuit1.gates[1].type # circuit2.gates[2].type
    /\ result.kind = "return" /\ result.ok

\* C6: a structurally valid circuit is Equivalent to itself.
C6_Reflexive ==
    (EquivalenceDone /\ circuit1 = circuit2 /\ StructurallyValid(circuit1))
    => result = ReturnVerdict(TRUE)

\* A gate-free circuit listing both primary inputs was checked against itself.
C6_Witness ==
    /\ EquivalenceDone
    /\ circuit1 = circuit2
    /\ circuit1.gates = <<>>
    /\ Range(circuit1.outputs) = Range(circuit1.inputs)
    /\ result = ReturnVerdict(TRUE)

-----------------------------------------------------------------------------
(* Properties of validate_circuit *)

ValidateDone == pc = "done" /\ op = "validate"

Keys(asg) == {asg[k][1] : k \in 1..Len(asg)}

\* The total input assignments that extend the entries of input_asg naming
\* primary inputs and under which every entry of signal_asg naming a defined
\* signal evaluates to its forced value.
Extensions(c, input_asg, signal_asg) ==
    {a \in InputAssignmentsOf(c) :
        /\ \A k \in 1..Len(input_asg) :
              input_asg[k][1] \in Range(c.inputs) => a[input_asg[k][1]] = input_asg[k][2]
        /\ \A k \in 1..Len(signal_asg) :
              signal_asg[k][1] \in Signals(c.inputs, c.gates)
              => SignalValues(c, a)[signal_asg[k][1]] = signal_asg[k][2]}

OutputsUnder(c, a) == [o \in Range(c.outputs) |-> SignalValues(c, a)[o]]

\* C7: with every primary input assigned and no signal assignment, a
\* structurally valid circuit validates, and each reported output is the value
\* the gates compute in sequence order (the assigned input itself when the
\* output names an input).
C7_OutputsAreGateValues ==
    (/\ ValidateDone
     /\ StructurallyValid(circuit1)
     /\ Keys(input_assignments) = Range(circuit1.inputs)
     /\ signal_assignments = <<>>)
    => /\ result.kind = "return" /\ result.ok /\ result.payload = "outputs"
       /\ \A a \in Extensions(circuit1, input_assignments, <<>>) :
             result.outputs = OutputsUnder(circuit1, a)

\* A two-gate circuit with two outputs validated under a total assignment.
C7_Witness ==
    /\ ValidateDone
    /\ Len(circuit1.gates) = 2
    /\ Len(circuit1.outputs) = 2
    /\ Keys(input_assignments) = Range(circuit1.inputs)
    /\ signal_assignments = <<>>
    /\ result.ok
    /\ \E o \in DOMAIN result.outputs : result.outputs[o]

\* C8: when the assignments name only defined inputs and signals, the call
\* returns valid=True exactly when some total input assignment extends
\* input_assignments and gives every forced signal its forced value, and the
\* outputs reported are the outputs under one such extension; otherwise it
\* returns valid=False with the contradiction message and no outputs.
C8_ValidIffSatisfiable ==
    (/\ ValidateDone
     /\ StructurallyValid(circuit1)
     /\ Keys(input_assignments) \subseteq Range(circuit1.inputs)
     /\ Keys(signal_assignments) \subseteq Signals(circuit1.inputs, circuit1.gates))
    => IF Extensions(circuit1, input_assignments, signal_assignments) # {}
       THEN /\ result.kind = "return" /\ result.ok /\ result.payload = "outputs"
            /\ \E a \in Extensions(circuit1, input_assignments, signal_assignments) :
                  result.outputs = OutputsUnder(circuit1, a)
       ELSE result = ReturnFailure(ContradictionMessage)

\* A NOT gate's output forced equal to its input ended in the contradiction.
C8_Witness ==
    /\ ValidateDone
    /\ \E i \in 1..Len(circuit1.gates) : \E k \in 1..Len(signal_assignments) :
          \E j \in 1..Len(input_assignments) :
             /\ circuit1.gates[i].type = "NOT"
             /\ signal_assignments[k][1] = circuit1.gates[i].name
             /\ input_assignments[j][1] = circuit1.gates[i].inputs[1]
             /\ signal_assignments[k][2] = input_assignments[j][2]
    /\ result = ReturnFailure(ContradictionMessage)

UnknownInputs == Keys(input_assignments) \ Range(circuit1.inputs)
UnknownSignals == Keys(signal_assignments) \ Signals(circuit1.inputs, circuit1.gates)

\* C9: when input_assignments names something that is no primary input, or
\* signal_assignments something outside the compiled namespace, the call
\* returns valid=False with a reason naming such a name, which is not the
\* contradiction message, whether or not the other assignments are
\* satisfiable.
C9_UnknownAssignmentTarget ==
    (/\ ValidateDone
     /\ StructurallyValid(circuit1)
     /\ UnknownInputs \cup UnknownSignals # {})
    => /\ result.kind = "return" /\ ~result.ok /\ result.payload = "message"
       /\ result.message \in
            {"Input '" \o n \o "' is not defined in the circuit." : n \in UnknownInputs}
            \cup {"Signal '" \o n \o "' is not defined in the circuit." :
                     n \in UnknownSignals}
       /\ result.message # ContradictionMessage
       /\ result.outputs = <<>>

\* An unknown signal was reported although the assignments to known names
\* contradict the circuit.
C9_Witness ==
    /\ ValidateDone
    /\ UnknownInputs = {}
    /\ UnknownSignals # {}
    /\ Extensions(circuit1, input_assignments, signal_assignments) = {}
    /\ result.payload = "message"
    /\ result.message = "Signal '" \o UnknownName \o "' is not defined in the circuit."

-----------------------------------------------------------------------------
(* Properties of both build_z3_expr functions *)

DuplicateGateName(c) ==
    \E i, j \in 1..Len(c.gates) : i # j /\ c.gates[i].name = c.gates[j].name

UndefinedGateInput(c) ==
    \E i \in 1..Len(c.gates) : \E k \in 1..Len(c.gates[i].inputs) :
        c.gates[i].inputs[k] \notin
            Range(c.inputs) \cup {c.gates[j].name : j \in 1..(i - 1)}

WrongArity(c) ==
    \E i \in 1..Len(c.gates) :
        \/ Vocabulary(c.gates[i].type) = "NOT" /\ Len(c.gates[i].inputs) # 1
        \/ Vocabulary(c.gates[i].type) \in {"XOR", "XNOR"} /\ Len(c.gates[i].inputs) # 2

UnsupportedType(c) ==
    \E i \in 1..Len(c.gates) : Vocabulary(c.gates[i].type) = "unsupported"

UndefinedOutput(c) ==
    \E k \in 1..Len(c.outputs) : c.outputs[k] \notin Signals(c.inputs, c.gates)

Malformed(c) ==
    \/ DuplicateGateName(c)
    \/ UndefinedGateInput(c)
    \/ WrongArity(c)
    \/ UnsupportedType(c)
    \/ UndefinedOutput(c)

\* C10: a circuit with a duplicate gate name, a gate input that is neither a
\* primary input nor an earlier gate, a NOT gate without exactly one input, an
\* XOR/XNOR gate without exactly two, a gate type outside the vocabulary or an
\* undefined output is rejected by validate_circuit and, as either argument,
\* by check_circuit_equivalence: no output values and no verdict come back
\* and no solver is created.
C10_MalformedCircuitRejected ==
    /\ (ValidateDone /\ Malformed(circuit1))
       => /\ result.kind = "return" /\ ~result.ok
          /\ result.payload = "message" /\ result.message # ContradictionMessage
          /\ result.outputs = <<>>
          /\ solver = "none"
    /\ (EquivalenceDone /\ (Malformed(circuit1) \/ Malformed(circuit2)))
       => /\ result.kind = "exit"
          /\ result.payload = "None" /\ result.differing_outputs = <<>>
          /\ solver = "none" /\ miter_pairs = <<>>

\* A second circuit whose only defect is a forward reference, the first gate
\* reading the second, was refused after the first circuit compiled.
C10_Witness ==
    /\ EquivalenceDone
    /\ ~Malformed(circuit1)
    /\ UndefinedGateInput(circuit2)
    /\ ~DuplicateGateName(circuit2) /\ ~WrongArity(circuit2)
    /\ ~UnsupportedType(circuit2) /\ ~UndefinedOutput(circuit2)
    /\ Len(circuit2.gates) = 2
    /\ circuit2.gates[2].name \in Range(circuit2.gates[1].inputs)
    /\ result.kind = "exit"

-----------------------------------------------------------------------------
(* Properties of the error path and of the data-model invariants *)

CallDone == pc = "done"

\* The call refused its circuit at compilation: a failure came back (or the
\* call left through an exit) before any solver existed.
Rejected ==
    /\ solver = "none" /\ checks = 0
    /\ \/ result.kind = "exit"
       \/ /\ result.kind = "return" /\ ~result.ok
          /\ result.payload = "message" /\ result.message # ContradictionMessage

\* C11: a structural error found while compiling either circuit, in either
\* flow, comes back to the caller as a failure result carrying the error;
\* the call never ends the hosting process.
C11_StructuralErrorIsTypedFailure ==
    (CallDone /\ (Malformed(circuit1) \/ Malformed(circuit2)))
    => /\ result.kind = "return"
       /\ ~result.ok
       /\ result.payload = "message" /\ result.message # ""

EmptyFanIn(c) ==
    \E i \in 1..Len(c.gates) :
        /\ Vocabulary(c.gates[i].type) \in {"AND", "OR", "NAND", "NOR"}
        /\ c.gates[i].inputs = <<>>

\* The argument circuits of the call that ended.
Arguments == IF op = "equivalence" THEN {circuit1, circuit2} ELSE {circuit1}

\* C12: a circuit with an AND, OR, NAND or NOR gate whose inputs sequence is
\* empty, and nothing else wrong with it, is refused at compilation in both
\* flows.
C12_EmptyFanInRejected ==
    (/\ CallDone
     /\ \E c \in Arguments : EmptyFanIn(c)
     /\ \A c \in Arguments : ~Malformed(c) /\ c.outputs # <<>>)
    => Rejected

NameClash(c) == \E i \in 1..Len(c.gates) : c.gates[i].name \in Range(c.inputs)

\* C13: a circuit in which a gate carries the name of a primary input, and
\* nothing else wrong with it, is refused at compilation, before any query,
\* in both flows.
C13_GateNamedLikeInputRejected ==
    (/\ CallDone
     /\ \E c \in Arguments : NameClash(c)
     /\ \A c \in Arguments : ~Malformed(c))
    => Rejected

\* C14: a circuit whose outputs sequence is empty, and nothing else wrong
\* with it, is refused at compilation: no Equivalent verdict and no
\* valid=True with an empty output map comes back.
C14_EmptyOutputsRejected ==
    (/\ CallDone
     /\ \E c \in Arguments : c.outputs = <<>>
     /\ \A c \in Arguments : ~Malformed(c) /\ ~EmptyFanIn(c))
    => Rejected

\* C15: when solver.check() answers unknown, check_circuit_equivalence
\* returns neither Equivalent nor NotEquivalent and validate_circuit neither
\* a valid result nor the contradiction.
C15_UnknownIsIndeterminate ==
    (CallDone /\ oracle = "unknown" /\ checks > 0)
    => /\ op = "equivalence" => result.kind # "return"
       /\ op = "validate" => ~result.ok /\ result.message # ContradictionMessage

-----------------------------------------------------------------------------
(* The order of the structural checks *)

\* The circuit whose compilation raises: the first malformed argument.
Offender == IF Malformed(circuit1) THEN circuit1 ELSE circuit2

DuplicatesEarlier(c, i) == \E j \in 1..(i - 1) : c.gates[j].name = c.gates[i].name

UndefinedInputsOf(c, i) ==
    {c.gates[i].inputs[k] : k \in 1..Len(c.gates[i].inputs)}
    \ (Range(c.inputs) \cup {c.gates[j].name : j \in 1..(i - 1)})

BadArityOrType(c, i) ==
    \/ Vocabulary(c.gates[i].type) = "unsupported"
    \/ Vocabulary(c.gates[i].type) = "NOT" /\ Len(c.gates[i].inputs) # 1
    \/ Vocabulary(c.gates[i].type) \in {"XOR", "XNOR"} /\ Len(c.gates[i].inputs) # 2

\* The errors of each kind, naming the offending gate, signal or type.
DuplicateErrors(c, gs) ==
    {"Duplicate gate name '" \o c.gates[i].name \o "' in circuit." :
        i \in {j \in gs : DuplicatesEarlier(c, j)}}

UndefinedErrors(c, gs) ==
    UNION {{"Signal '" \o n \o "' used in gate '" \o c.gates[i].name
            \o "' is not defined." : n \in UndefinedInputsOf(c, i)} : i \in gs}

ArityErrors(c, gs) ==
    {IF Vocabulary(c.gates[i].type) = "unsupported"
     THEN "Unsupported gate type: BUFF"
     ELSE IF Vocabulary(c.gates[i].type) = "NOT"
     THEN "NOT gate '" \o c.gates[i].name \o "' must have exactly one input."
     ELSE Vocabulary(c.gates[i].type) \o " gate '" \o c.gates[i].name
          \o "' must have exactly two inputs." :
        i \in {j \in gs : BadArityOrType(c, j)}}

OutputErrors(c) ==
    {"Output signal '" \o c.outputs[k] \o "' is not defined in the circuit." :
        k \in {j \in 1..Len(c.outputs) : c.outputs[j] \notin Signals(c.inputs, c.gates)}}

\* The first non-empty set of a sequence of sets.
FirstNonEmpty(sets) ==
    LET full == {k \in 1..Len(sets) : sets[k] # {}}
    IN IF full = {} THEN {} ELSE sets[CHOOSE k \in full : \A j \in full : k <= j]

\* Kind by kind over the whole circuit: duplicates, then undefined inputs,
\* then arity and type, then outputs.
ErrorsByKind(c) ==
    LET all == 1..Len(c.gates)
    IN FirstNonEmpty(<<DuplicateErrors(c, all), UndefinedErrors(c, all),
                       ArityErrors(c, all), OutputErrors(c)>>)

\* Gate by gate in sequence order, the kinds in that order within a gate,
\* the outputs after the last gate.
ErrorsByGate(c) ==
    LET bad == {i \in 1..Len(c.gates) :
                   \/ DuplicatesEarlier(c, i)
                   \/ UndefinedInputsOf(c, i) # {}
                   \/ BadArityOrType(c, i)}
        first == {CHOOSE i \in bad : \A j \in bad : i <= j}
    IN IF bad = {} THEN OutputErrors(c)
       ELSE FirstNonEmpty(<<DuplicateErrors(c, first), UndefinedErrors(c, first),
                            ArityErrors(c, first)>>)

\* C16 as stated: of the kinds of violation a circuit has, the one reported
\* is the first in the order duplicate name, undefined gate input, arity or
\* type, undefined output, wherever in the gate sequence it occurs.
C16_FirstKindReported ==
    (CallDone /\ Malformed(Offender)) => result.message \in ErrorsByKind(Offender)

\* C16 amended: the gates are checked one after the other in sequence order,
\* each for duplicate name, then undefined input, then arity or type; the
\* outputs are checked after the last gate; the error reported is the first
\* met on this way and names the offending gate, signal or type.
C16_FirstGateReported ==
    (CallDone /\ Malformed(Offender)) => result.message \in ErrorsByGate(Offender)

\* The first gate has a wrong arity, the second repeats its name, and the
\* arity error of the first gate was reported.
C16_Witness ==
    /\ CallDone
    /\ Len(Offender.gates) = 2
    /\ BadArityOrType(Offender, 1)
    /\ UndefinedInputsOf(Offender, 1) = {}
    /\ DuplicatesEarlier(Offender, 2)
    /\ result.message \in ArityErrors(Offender, {1})

-----------------------------------------------------------------------------
(* Calls in sequence *)

\* The results the call that ended gives when it is the only call made.
ResultsAlone ==
    IF op = "validate"
    THEN {o.result : o \in validate_circuit_from(<<>>, circuit1, input_assignments,
                                                 signal_assignments)}
    ELSE {o.result : o \in check_circuit_equivalence_from(<<>>, circuit1, circuit2)}

\* The signal names of the circuits the call that ended was given.
OwnSignals == UNION {Signals(c.inputs, c.gates) : c \in Arguments}

=============================================================================
